---- MODULE Spec2Model ----
(***************************************************************************)
(* Model of sky/provision/aws/instance.py: tag-spec merging, instance      *)
(* creation with subnet rotation, resuming stopped instances, the          *)
(* create-or-resume orchestration and the lifecycle waiter, run against a  *)
(* model of the EC2 control plane.                                         *)
(*                                                                         *)
(* Python objects that the code aliases (tag dicts) live in a heap: a      *)
(* sequence of [Key, Value] records addressed by index.  A tag list is a   *)
(* sequence of addresses, so that an in-place write through one list is    *)
(* seen through every other list holding the same address.                 *)
(***************************************************************************)
EXTENDS Integers, Sequences, FiniteSets, TLC

\* ---------------------------------------------------------------- bounds
MaxUserSpecs == 2      \* tag specifications in a template
MaxUserTags == 1       \* tags in one 'instance' tag specification
MaxBaseTags == 1       \* tags in the base spec of a stand-alone merge
MaxInstances == 2      \* instances in the region before the call
MaxCount == 2          \* largest count a caller asks for
MaxSubnets == 6        \* candidate subnets in a template

\* ------------------------------------------------------------- constants
BOTO_CREATE_MAX_RETRIES == 5
TAG_RAY_CLUSTER_NAME == "ray-cluster-name"

ClusterNames == {"c1", "c2"}
TagKeys == {"owner", TAG_RAY_CLUSTER_NAME}
TagValues == ClusterNames
NoTag == "absent"

\* ------------------------------------------------------------ data model
TagObjects == [Key : TagKeys, Value : TagValues]

SeqsUpTo(S, n) == UNION {[1..k -> S] : k \in 0..n}

\* Tag lists by content.  A dict-derived list has no repeated key.
TagLists(n) == SeqsUpTo(TagObjects, n)
UniqueKeys(tl) == \A i, j \in 1..Len(tl) : tl[i].Key = tl[j].Key => i = j

\* Tag specifications by content.  The tags of a non-'instance' entry are
\* never read by this module, so those entries are drawn with no tags.
TagSpecContents ==
    {[ResourceType |-> "instance", Tags |-> tl] : tl \in TagLists(MaxUserTags)}
        \cup {[ResourceType |-> "volume", Tags |-> <<>>]}
UserTagSpecContents == SeqsUpTo(TagSpecContents, MaxUserSpecs)

\* Allocation of a content-level tag-spec list in the heap: every tag becomes
\* a fresh object appended to the heap, every Tags list a list of addresses.
RECURSIVE Alloc(_, _, _)
Alloc(heap, content, done) ==
    IF content = <<>> THEN [heap |-> heap, specs |-> done]
    ELSE LET s == Head(content)
             n == Len(s.Tags)
         IN Alloc(heap \o s.Tags,
                  Tail(content),
                  Append(done, [ResourceType |-> s.ResourceType,
                                Tags |-> [j \in 1..n |-> Len(heap) + j]]))

\* The content reachable from a tag-spec list.
Content(heap, specs) ==
    [i \in 1..Len(specs) |->
        [ResourceType |-> specs[i].ResourceType,
         Tags |-> [j \in 1..Len(specs[i].Tags) |-> heap[specs[i].Tags[j]]]]]

\* ------------------------------------------------------ _merge_tag_specs
\* Position of the first tag of Tags with the given key, from position p; 0
\* when the inner loop ends without a match.
RECURSIVE FindTag(_, _, _, _)
FindTag(heap, Tags, key, p) ==
    IF p > Len(Tags) THEN 0
    ELSE IF heap[Tags[p]].Key = key THEN p
    ELSE FindTag(heap, Tags, key, p + 1)

\* Mutant: a user tag whose key exists is appended instead of overwriting.
MergeUserTagNoOverwrite(st, a) ==
    [st EXCEPT !.tag_specs[1].Tags = Append(@, a)]

\* Mutant: the matching tag is left alone (base wins on a key collision).
MergeUserTagBaseWins(st, a) ==
    LET base == st.tag_specs[1].Tags
        p == FindTag(st.heap, base, st.heap[a].Key, 1)
    IN IF p # 0 THEN st
       ELSE [st EXCEPT !.tag_specs[1].Tags = Append(@, a)]

\* One user tag (the object at address a) merged into tag_specs[0]: the first
\* tag with the same key has its Value overwritten in place; without a match
\* the user's own tag object is appended (shared, not copied).
MergeUserTag(st, a) ==
    LET base == st.tag_specs[1].Tags
        p == FindTag(st.heap, base, st.heap[a].Key, 1)
    IN IF p # 0
       THEN [st EXCEPT !.heap[base[p]].Value = st.heap[a].Value]
       ELSE [st EXCEPT !.tag_specs[1].Tags = Append(@, a)]

RECURSIVE MergeUserTags(_, _, _)
MergeUserTags(st, Tags, j) ==
    IF j > Len(Tags) THEN st
    ELSE MergeUserTags(MergeUserTag(st, Tags[j]), Tags, j + 1)

\* One user tag specification: merged when 'instance', appended otherwise.
MergeUserSpec(st, user_tag_spec) ==
    IF user_tag_spec.ResourceType = "instance"
    THEN MergeUserTags(st, user_tag_spec.Tags, 1)
    ELSE [st EXCEPT !.tag_specs = Append(@, user_tag_spec)]

RECURSIVE MergeUserSpecs(_, _, _)
MergeUserSpecs(st, user_tag_specs, i) ==
    IF i > Len(user_tag_specs) THEN st
    ELSE MergeUserSpecs(MergeUserSpec(st, user_tag_specs[i]),
                        user_tag_specs, i + 1)

\* _merge_tag_specs(tag_specs, user_tag_specs) run on a heap; the result is
\* the heap and the base list after the in-place merge.
merge_tag_specs(heap, tag_specs, user_tag_specs) ==
    MergeUserSpecs([heap |-> heap, tag_specs |-> tag_specs], user_tag_specs, 1)

\* ------------------------------------------------------------ Python dicts
\* A dict is a sequence of <<key, value>> pairs without repeated keys, in
\* insertion order.
RECURSIVE DictFind(_, _, _)
DictFind(d, k, p) ==
    IF p > Len(d) THEN 0
    ELSE IF d[p][1] = k THEN p
    ELSE DictFind(d, k, p + 1)

\* {**d, **u}: a key of u already in d keeps its position and takes u's
\* value; a new key is appended.
RECURSIVE DictUpdate(_, _)
DictUpdate(d, u) ==
    IF u = <<>> THEN d
    ELSE LET p == DictFind(d, Head(u)[1], 1)
         IN DictUpdate(IF p # 0 THEN [d EXCEPT ![p] = Head(u)]
                       ELSE Append(d, Head(u)),
                       Tail(u))

\* Byte order of the tag keys in use.
KeyRank(k) == CASE k = "Name" -> 1
                [] k = "owner" -> 2
                [] k = TAG_RAY_CLUSTER_NAME -> 3

\* dict(sorted(d.items())): insertion sort by key.
RECURSIVE SortedInsert(_, _)
SortedInsert(d, e) ==
    IF d = <<>> THEN <<e>>
    ELSE IF KeyRank(e[1]) < KeyRank(Head(d)[1]) THEN <<e>> \o d
    ELSE <<Head(d)>> \o SortedInsert(Tail(d), e)

RECURSIVE SortedDict(_)
SortedDict(d) ==
    IF d = <<>> THEN <<>>
    ELSE SortedInsert(SortedDict(Tail(d)), Head(d))

\* _format_tags: one {'Key': k, 'Value': v} per item of the dict.
format_tags(tags) ==
    [i \in 1..Len(tags) |-> [Key |-> tags[i][1], Value |-> tags[i][2]]]

\* The tags an instance ends up with from a tag list: per key, the value of
\* the last tag with that key; NoTag for a key the list does not hold.
AllKeys == TagKeys \cup {"Name"}
RECURSIVE ApplyTags(_, _)
ApplyTags(m, tl) ==
    IF tl = <<>> THEN m
    ELSE ApplyTags([m EXCEPT ![Head(tl).Key] = Head(tl).Value], Tail(tl))

NoTags == [k \in AllKeys |-> NoTag]

\* ------------------------------------------------------- create_instances
Max(a, b) == IF a >= b THEN a ELSE b

\* Mutant: the retry budget ignores the number of subnets.
max_tries_fixed(subnet_ids) == BOTO_CREATE_MAX_RETRIES

max_tries(subnet_ids) == Max(BOTO_CREATE_MAX_RETRIES, Len(subnet_ids))

\* The subnet pinned on attempt i (0-based).
subnet_id(subnet_ids, i) == subnet_ids[(i % Len(subnet_ids)) + 1]

\* Mutant: the cluster tag is left out of the forced tags.
instance_tags_name_only(cluster_name, tags) ==
    DictUpdate(<<<<"Name", cluster_name>>>>, tags)

\* {'Name': cluster_name, TAG_RAY_CLUSTER_NAME: cluster_name, **tags}
instance_tags(cluster_name, tags) ==
    DictUpdate(<<<<"Name", cluster_name>>,
                 <<TAG_RAY_CLUSTER_NAME, cluster_name>>>>, tags)

\* The launch request built before the retry loop, and what the merge did to
\* the caller's node_config.  The template's tag objects are the first
\* objects of the heap; conf is a shallow copy, so conf's user tag specs are
\* the template's own objects.  SubnetIds is popped from the copy.
CreateConf(cluster_name, node_config, tags, count) ==
    LET alltags == instance_tags(cluster_name, tags)
        tmpl == Alloc(<<>>, node_config.TagSpecifications, <<>>)
        base == Alloc(tmpl.heap,
                      <<[ResourceType |-> "instance",
                         Tags |-> format_tags(alltags)]>>, <<>>)
        merged == merge_tag_specs(base.heap, base.specs, tmpl.specs)
    IN [conf |-> [MinCount |-> 1,
                  MaxCount |-> count,
                  TagSpecifications |-> Content(merged.heap, merged.tag_specs),
                  NetworkInterfaces |-> node_config.NetworkInterfaces,
                  SecurityGroupIds |-> node_config.SecurityGroupIds,
                  SubnetId |-> 0],
        subnet_ids |-> node_config.SubnetIds,
        node_config |-> [node_config EXCEPT
                            !.TagSpecifications = Content(merged.heap, tmpl.specs)]]

\* The request sent on attempt i (0-based): with network interfaces the
\* security group ids are removed and no subnet is pinned (SubnetId 0 stands
\* for an absent key); otherwise the subnet of the rotation is pinned.
CreateRequest(conf, subnet_ids, i) ==
    IF conf.NetworkInterfaces
    THEN [conf EXCEPT !.SecurityGroupIds = FALSE]
    ELSE [conf EXCEPT !.SubnetId = subnet_id(subnet_ids, i)]

\* create_instances against a provider that answers the first `rejects`
\* attempts with a client error and then launches `launched` instances
\* (MinCount <= launched <= MaxCount).  calls: the requests sent, in order;
\* error: "none", or "RuntimeError" once the attempts are used up; created:
\* the number of instances returned; tags: the tags they carry.
create_instances(cluster_name, node_config, tags, count, rejects, launched) ==
    LET c == CreateConf(cluster_name, node_config, tags, count)
        tries == max_tries(c.subnet_ids)
        sent == IF rejects >= tries THEN tries ELSE rejects + 1
        ok == rejects < tries
    IN [calls |-> [i \in 1..sent |->
                      [api |-> "create_instances",
                       req |-> CreateRequest(c.conf, c.subnet_ids, i - 1)]],
        error |-> IF ok THEN "none" ELSE "RuntimeError",
        created |-> IF ok THEN launched ELSE 0,
        tags |-> ApplyTags(NoTags, c.conf.TagSpecifications[1].Tags),
        node_config |-> c.node_config]

\* ------------------------------------------------------------------ state
VARIABLES
    instances,      \* the region's instances, by id: [state, tags]
    node_config,    \* the caller's node template object
    pc,             \* position of the caller's one call
    call,           \* the call's arguments (tags as the callee sees them)
    reuse_nodes,    \* resume_instances: the listed nodes, state as loaded
    idx,            \* resume_instances: position of the stopping-wait loop
    calls,          \* provider calls made by the call, in order
    result,         \* ids of the returned mapping, in order
    error,          \* "none" or the exception the call raised
    merge           \* a stand-alone run of _merge_tag_specs

vars == <<instances, node_config, pc, call, reuse_nodes, idx, calls, result,
          error, merge>>

\* Optional[int]: <<>> is None, <<n>> is n.
OptCounts == {<<>>} \cup {<<n>> : n \in 0..MaxCount}

\* The calls are made for one cluster; the region also holds instances of
\* the other.
CallClusters == {"c1"}

\* Caller tag dicts: empty, one that overrides the cluster tag, and one with
\* two keys that is not in key order.
CallerTagDicts ==
    {<<>>,
     <<<<TAG_RAY_CLUSTER_NAME, "c2">>>>,
     <<<<TAG_RAY_CLUSTER_NAME, "c1">>, <<"owner", "c2">>>>}

WaitStates == {"running", "stopped", "terminated", "paused", "pending"}

\* Tags of an instance an earlier create for cluster c left behind.
ClusterTags(c) ==
    [k \in AllKeys |-> IF k = "owner" THEN NoTag ELSE c]

InitInstances ==
    [state : {"running", "stopping", "stopped"},
     tags : {ClusterTags(c) : c \in ClusterNames}]

DefaultTemplate ==
    [TagSpecifications |-> <<>>, SubnetIds |-> <<1>>,
     NetworkInterfaces |-> FALSE, SecurityGroupIds |-> FALSE]

\* Tag specifications of the templates: none, one tag, a repeated key in one
\* entry and across two entries, an override of the cluster tag, and entries
\* of another resource type.
InstanceSpec(tl) == [ResourceType |-> "instance", Tags |-> tl]
VolumeSpec == [ResourceType |-> "volume", Tags |-> <<>>]
Owner(v) == [Key |-> "owner", Value |-> v]
TemplateTagSpecs ==
    {<<>>,
     <<InstanceSpec(<<Owner("c1")>>)>>,
     <<InstanceSpec(<<Owner("c1"), Owner("c2")>>)>>,
     <<InstanceSpec(<<Owner("c1")>>), InstanceSpec(<<Owner("c2")>>)>>,
     <<InstanceSpec(<<[Key |-> TAG_RAY_CLUSTER_NAME, Value |-> "c2"]>>)>>,
     <<VolumeSpec>>,
     <<VolumeSpec, InstanceSpec(<<Owner("c2")>>)>>}

Templates ==
    {[DefaultTemplate EXCEPT !.TagSpecifications = ts] : ts \in TemplateTagSpecs}
    \cup {[TagSpecifications |-> <<>>,
           SubnetIds |-> [i \in 1..n |-> i],
           NetworkInterfaces |-> ni,
           SecurityGroupIds |-> sg] :
             n \in 1..MaxSubnets, ni \in BOOLEAN, sg \in BOOLEAN}

Clouds == SeqsUpTo(InitInstances, MaxInstances)
SmallClouds ==
    {<<>>, <<[state |-> "stopped", tags |-> ClusterTags("c1")]>>}

NoCall ==
    [op |-> "none", cluster_name |-> "", tags |-> <<>>, count |-> <<>>,
     resume_stopped_nodes |-> FALSE, state |-> ""]

MergeOff ==
    [phase |-> "off", heap |-> <<>>, tag_specs |-> <<>>,
     user_tag_specs |-> <<>>, base0 |-> <<>>, user0 |-> <<>>, before |-> <<>>]

\* The region and the template vary one at a time around a default.
Init ==
    /\ \/ instances \in Clouds /\ node_config = DefaultTemplate
       \/ instances \in SmallClouds /\ node_config \in Templates
    /\ pc = "idle"
    /\ call = NoCall
    /\ reuse_nodes = <<>>
    /\ idx = 1
    /\ calls = <<>>
    /\ result = <<>>
    /\ error = "none"
    /\ merge = MergeOff

\* ------------------------------------------------------------ the provider
\* ec2.instances.filter: ids of the instances carrying the cluster tag with
\* value cluster_name whose state is one of states, in listing order.
FilterIds(cluster_name, states) ==
    SelectSeq([i \in 1..Len(instances) |-> i],
              LAMBDA i : /\ instances[i].tags[TAG_RAY_CLUSTER_NAME] = cluster_name
                         /\ instances[i].state \in states)

Ids(nodes) == [i \in 1..Len(nodes) |-> nodes[i].id]
Range(f) == {f[i] : i \in DOMAIN f}

\* A stopping instance reaches stopped.
ProviderStopped(i) ==
    /\ instances[i].state = "stopping"
    /\ instances' = [instances EXCEPT ![i].state = "stopped"]
    /\ UNCHANGED <<node_config, pc, call, reuse_nodes, idx, calls, result,
                   error, merge>>

\* ----------------------------------------------------------- the call steps
\* create_instances run to its end: the requests are logged, the launched
\* instances appear pending with the instance tags of the request, and their
\* ids are added to the returned mapping.
DoCreate(cluster_name, tags, count, rejects, launched) ==
    LET r == create_instances(cluster_name, node_config, tags, count,
                              rejects, launched)
        n == Len(instances)
    IN /\ calls' = calls \o r.calls
       /\ instances' = instances \o
              [i \in 1..r.created |-> [state |-> "pending", tags |-> r.tags]]
       /\ result' = IF r.error = "none"
                    THEN result \o [i \in 1..r.created |-> n + i]
                    ELSE <<>>
       /\ error' = r.error
       /\ node_config' = r.node_config
       /\ pc' = "returned"

CallCreate(cluster_name, tags, count, rejects, launched) ==
    /\ pc = "idle"
    /\ call' = [NoCall EXCEPT !.op = "create", !.cluster_name = cluster_name,
                              !.tags = tags, !.count = <<count>>]
    /\ DoCreate(cluster_name, tags, count, rejects, launched)
    /\ UNCHANGED <<reuse_nodes, idx, merge>>

\* l[:n] for n >= 0: the first n elements, or all of l when it has fewer.
Slice(l, n) == SubSeq(l, 1, IF n < Len(l) THEN n ELSE Len(l))

\* Where the caller of resume_instances goes on.
AfterResume(op) == IF op = "ensure" THEN "ensure_create" ELSE "returned"

\* resume_instances up to the wait loop: list, truncate, take the ids.
ResumeList(op, cluster_name, count) ==
    LET listed == FilterIds(cluster_name, {"stopped", "stopping"})
        kept == IF count # <<>> THEN Slice(listed, count[1]) ELSE listed
    IN /\ reuse_nodes' = [i \in 1..Len(kept) |->
                             [id |-> kept[i], state |-> instances[kept[i]].state]]
       /\ idx' = 1
       /\ pc' = IF kept # <<>> THEN "resume_wait" ELSE AfterResume(op)

CallResume(cluster_name, tags, count) ==
    /\ pc = "idle"
    /\ call' = [NoCall EXCEPT !.op = "resume", !.cluster_name = cluster_name,
                              !.tags = tags, !.count = count]
    /\ ResumeList("resume", cluster_name, count)
    /\ UNCHANGED <<instances, node_config, calls, result, error, merge>>

\* Mutant: the loop does not wait for a stopping node.
ResumeWaitNoBlock ==
    /\ pc = "resume_wait"
    /\ idx <= Len(reuse_nodes)
    /\ idx' = idx + 1
    /\ UNCHANGED <<instances, node_config, pc, call, reuse_nodes, calls,
                   result, error, merge>>

\* One turn of the loop over reuse_nodes: a node loaded as stopping is waited
\* on, which returns once the provider reports it stopped.
ResumeWait ==
    /\ pc = "resume_wait"
    /\ idx <= Len(reuse_nodes)
    /\ IF reuse_nodes[idx].state = "stopping"
       THEN /\ instances[reuse_nodes[idx].id].state = "stopped"
            /\ calls' = Append(calls, [api |-> "wait_until_stopped",
                                       id |-> reuse_nodes[idx].id])
       ELSE calls' = calls
    /\ idx' = idx + 1
    /\ UNCHANGED <<instances, node_config, pc, call, reuse_nodes, result,
                   error, merge>>

\* Mutant: the tag update is sent whatever the tags.
TagCallsAlways(ids, tags) ==
    <<[api |-> "create_tags", Resources |-> ids, Tags |-> format_tags(tags)]>>

\* The tag update of resume_instances: skipped for an empty dict.
TagCalls(ids, tags) ==
    IF tags # <<>>
    THEN <<[api |-> "create_tags", Resources |-> ids, Tags |-> format_tags(tags)]>>
    ELSE <<>>

\* After the loop: one start request for all ids, which the provider accepts
\* only if every instance is stopped; then the tag update; then the return.
ResumeStart ==
    /\ pc = "resume_wait"
    /\ idx > Len(reuse_nodes)
    /\ LET ids == Ids(reuse_nodes)
           start == [api |-> "start_instances", InstanceIds |-> ids]
           tagging == TagCalls(ids, call.tags)
       IN IF \A i \in Range(ids) : instances[i].state = "stopped"
          THEN /\ calls' = (calls \o <<start>>) \o tagging
               /\ instances' =
                    [i \in 1..Len(instances) |->
                        IF i \in Range(ids)
                        THEN [state |-> "pending",
                              tags |-> IF tagging # <<>>
                                       THEN ApplyTags(instances[i].tags,
                                                      tagging[1].Tags)
                                       ELSE instances[i].tags]
                        ELSE instances[i]]
               /\ result' = ids
               /\ pc' = AfterResume(call.op)
               /\ error' = error
          ELSE /\ calls' = Append(calls, start)
               /\ error' = "ClientError"
               /\ pc' = "returned"
               /\ UNCHANGED <<instances, result>>
    /\ UNCHANGED <<node_config, call, reuse_nodes, idx, merge>>

\* create_or_resume_instances: the tags are sorted by key; resume first when
\* allowed.
CallEnsure(cluster_name, tags, count, resume_stopped_nodes) ==
    /\ pc = "idle"
    /\ call' = [NoCall EXCEPT !.op = "ensure", !.cluster_name = cluster_name,
                              !.tags = SortedDict(tags), !.count = <<count>>,
                              !.resume_stopped_nodes = resume_stopped_nodes]
    /\ IF resume_stopped_nodes
       THEN ResumeList("ensure", cluster_name, <<count>>)
       ELSE pc' = "ensure_create" /\ UNCHANGED <<reuse_nodes, idx>>
    /\ UNCHANGED <<instances, node_config, calls, result, error, merge>>

\* Mutant: the shortfall ignores the resumed nodes.
remaining_count_all(count, all_created_nodes) == count

remaining_count(count, all_created_nodes) == count - Len(all_created_nodes)

\* create_or_resume_instances after the resume: create the shortfall, if any.
EnsureCreate(rejects, launched) ==
    /\ pc = "ensure_create"
    /\ LET remaining == remaining_count(call.count[1], result)
       IN IF remaining > 0
          THEN /\ launched <= remaining
               /\ DoCreate(call.cluster_name, call.tags, remaining,
                           rejects, launched)
          ELSE /\ rejects = 0 /\ launched = 1
               /\ pc' = "returned"
               /\ UNCHANGED <<instances, node_config, calls, result, error>>
    /\ UNCHANGED <<call, reuse_nodes, idx, merge>>

\* ---------------------------------------------------------- wait_instances
\* Mutant: an unknown state falls back to the running waiter.
waiter_name_default(state) ==
    CASE state = "stopped" -> "instance_stopped"
      [] state = "terminated" -> "instance_terminated"
      [] OTHER -> "instance_running"

\* The waiter chosen for a target state; "unsupported" is the raise branch.
waiter_name(state) ==
    CASE state = "running" -> "instance_running"
      [] state = "stopped" -> "instance_stopped"
      [] state = "terminated" -> "instance_terminated"
      [] OTHER -> "unsupported"

NonTerminated == {"pending", "running", "shutting-down", "stopping", "stopped"}

\* The filters built before the waiter is chosen.
wait_filters(cluster_name, state) ==
    <<[Name |-> "tag:" \o TAG_RAY_CLUSTER_NAME, Values |-> {cluster_name}]>>
    \o (IF state # "terminated"
        THEN <<[Name |-> "instance-state-name", Values |-> NonTerminated]>>
        ELSE <<>>)

\* wait_instances up to the blocking wait: an unsupported state raises
\* before any waiter is obtained.
CallWait(cluster_name, state) ==
    /\ pc = "idle"
    /\ call' = [NoCall EXCEPT !.op = "wait", !.cluster_name = cluster_name,
                              !.state = state]
    /\ IF waiter_name(state) # "unsupported"
       THEN /\ calls' = <<[api |-> "get_waiter", name |-> waiter_name(state)],
                          [api |-> "wait",
                           Filters |-> wait_filters(cluster_name, state)]>>
            /\ pc' = "waiting"
            /\ error' = error
       ELSE /\ calls' = calls
            /\ pc' = "returned"
            /\ error' = "ValueError"
    /\ UNCHANGED <<instances, node_config, reuse_nodes, idx, result, merge>>

\* The instances the wait's filters select.
Waited ==
    {i \in 1..Len(instances) :
        /\ instances[i].tags[TAG_RAY_CLUSTER_NAME] = call.cluster_name
        /\ call.state # "terminated" => instances[i].state \in NonTerminated}

\* The wait returns once every selected instance is in the target state.
WaitDone ==
    /\ pc = "waiting"
    /\ \A i \in Waited : instances[i].state = call.state
    /\ pc' = "returned"
    /\ UNCHANGED <<instances, node_config, call, reuse_nodes, idx, calls,
                   result, error, merge>>

\* The waiter gives up (attempts used up, or a state it cannot leave).
WaitFail ==
    /\ pc = "waiting"
    /\ pc' = "returned"
    /\ error' = "WaiterError"
    /\ UNCHANGED <<instances, node_config, call, reuse_nodes, idx, calls,
                   result, merge>>

\* ------------------------------------------------------------ specification
\* A behaviour is one call of the module, started from any content of the
\* region, with the provider's own transitions interleaved.  Rejects is what
\* the provider may do to a create call: the number of attempts it answers
\* with a client error.
Rejects == 0..max_tries(node_config.SubnetIds)

Next ==
    \/ \E c \in CallClusters, t \in CallerTagDicts, n \in 1..MaxCount,
          r \in Rejects, k \in 1..MaxCount :
            k <= n /\ CallCreate(c, t, n, r, k)
    \/ \E c \in CallClusters, t \in CallerTagDicts, n \in OptCounts :
            CallResume(c, t, n)
    \/ \E c \in CallClusters, t \in CallerTagDicts, n \in 0..MaxCount,
          b \in BOOLEAN :
            CallEnsure(c, t, n, b)
    \/ \E c \in CallClusters, s \in WaitStates : CallWait(c, s)
    \/ ResumeWait
    \/ ResumeStart
    \/ \E r \in Rejects, k \in 1..MaxCount : EnsureCreate(r, k)
    \/ WaitDone
    \/ WaitFail
    \/ \E i \in 1..Len(instances) : ProviderStopped(i)

Spec == Init /\ [][Next]_vars

\* ------------------------------------------- _merge_tag_specs on its own
\* Base lists as create_instances builds them: one 'instance' entry made
\* from a dict, so without repeated keys.
BaseTagSpecContents ==
    {<<InstanceSpec(tl)>> : tl \in {t \in TagLists(MaxBaseTags) : UniqueKeys(t)}}

InitMerge ==
    /\ instances = <<>>
    /\ node_config = DefaultTemplate
    /\ pc = "off"
    /\ call = NoCall
    /\ reuse_nodes = <<>>
    /\ idx = 1
    /\ calls = <<>>
    /\ result = <<>>
    /\ error = "none"
    /\ \E b \in BaseTagSpecContents, u \in UserTagSpecContents :
          LET ub == Alloc(<<>>, u, <<>>)
              bb == Alloc(ub.heap, b, <<>>)
          IN merge = [phase |-> "init", heap |-> bb.heap,
                      tag_specs |-> bb.specs, user_tag_specs |-> ub.specs,
                      base0 |-> b, user0 |-> u, before |-> b]

\* _merge_tag_specs(tag_specs, user_tag_specs), a first and a second time.
MergeCall(from, to) ==
    /\ merge.phase = from
    /\ LET st == merge_tag_specs(merge.heap, merge.tag_specs,
                                 merge.user_tag_specs)
       IN merge' = [merge EXCEPT !.phase = to, !.heap = st.heap,
                                 !.tag_specs = st.tag_specs,
                                 !.before = Content(merge.heap, merge.tag_specs)]
    /\ UNCHANGED <<instances, node_config, pc, call, reuse_nodes, idx, calls,
                   result, error>>

MergeOnce == MergeCall("init", "once")
MergeAgain == MergeCall("once", "twice")

\* _merge_tag_specs(s, copy.deepcopy(s)) for the list s of user specs, when s
\* can stand as a base list: its first entry, the one the merge writes into,
\* is an 'instance' entry.
SelfMerge ==
    /\ merge.phase = "init"
    /\ merge.user_tag_specs # <<>>
    /\ merge.user_tag_specs[1].ResourceType = "instance"
    /\ LET s == merge.user_tag_specs
           cp == Alloc(merge.heap, Content(merge.heap, s), <<>>)
           st == merge_tag_specs(cp.heap, s, cp.specs)
       IN merge' = [merge EXCEPT !.phase = "self", !.heap = st.heap,
                                 !.tag_specs = st.tag_specs,
                                 !.before = Content(merge.heap, s)]
    /\ UNCHANGED <<instances, node_config, pc, call, reuse_nodes, idx, calls,
                   result, error>>

NextMerge == MergeOnce \/ MergeAgain \/ SelfMerge

SpecMerge == InitMerge /\ [][NextMerge]_vars

\* ================================================================ properties
CallsTo(api) == SelectSeq(calls, LAMBDA c : c.api = api)
CreateCalls == CallsTo("create_instances")
StartCalls == CallsTo("start_instances")
TagUpdateCalls == CallsTo("create_tags")
Started == StartCalls # <<>> /\ error # "ClientError"

\* Stopped or stopping instances tagged for the call's cluster right now.
StillStopped ==
    Len(FilterIds(call.cluster_name, {"stopped", "stopping"}))

\* ---------------------------------------------------------------------- C1
\* C1: create_or_resume_instances with resume allowed, for a desired count d
\* and r stopped/stopping instances tagged for the cluster: when d > r every
\* create request asks for exactly d - r instances (and there is one); when
\* r >= d no create request is made and at most d instances are resumed.
\* r is the number resumed plus the number still stopped or stopping.
C1_EnsureCountShortfall ==
    (pc = "returned" /\ call.op = "ensure" /\ call.resume_stopped_nodes) =>
        LET d == call.count[1]
            r == Len(reuse_nodes) + StillStopped
        IN IF d > r
           THEN /\ CreateCalls # <<>>
                /\ \A i \in 1..Len(CreateCalls) :
                      CreateCalls[i].req.MaxCount = d - r
                /\ Len(reuse_nodes) = r
           ELSE /\ CreateCalls = <<>>
                /\ Len(reuse_nodes) <= d
                /\ Len(result) = Len(reuse_nodes)

C1_Witness ==
    /\ pc = "returned" /\ call.op = "ensure" /\ call.resume_stopped_nodes
    /\ error = "none"
    /\ Len(reuse_nodes) >= 1
    /\ call.count[1] > Len(reuse_nodes)
    /\ CreateCalls # <<>>

\* ---------------------------------------------------------------------- C2
Exhausted == pc = "returned" /\ error = "RuntimeError"
Candidates == node_config.SubnetIds
Budget ==
    IF Len(Candidates) > BOTO_CREATE_MAX_RETRIES
    THEN Len(Candidates) ELSE BOTO_CREATE_MAX_RETRIES
Rotation ==
    \A i \in 1..Len(CreateCalls) :
        CreateCalls[i].req.SubnetId = Candidates[((i - 1) % Len(Candidates)) + 1]

\* C2 as stated: with a client error on every attempt, exactly max(5, n)
\* create requests are sent before the exhausted-attempts error, and the
\* subnet of attempt i is candidates[i mod n].
C2_AsStated ==
    Exhausted => Len(CreateCalls) = Budget /\ Rotation

\* C2 amended: with n >= 1 candidates and a client error on every attempt,
\* exactly max(5, n) create requests are sent before the exhausted-attempts
\* error; the subnet of attempt i is candidates[i mod n] when the template has
\* no network interfaces, and no subnet is pinned on any attempt when it has.
C2_RetryBudgetAndRotation ==
    /\ Exhausted => Len(CreateCalls) = Budget
    /\ CreateCalls # <<>> =>
          IF node_config.NetworkInterfaces
          THEN \A i \in 1..Len(CreateCalls) : CreateCalls[i].req.SubnetId = 0
          ELSE Rotation

C2_Witness ==
    /\ Exhausted
    /\ ~node_config.NetworkInterfaces
    /\ Len(Candidates) > BOTO_CREATE_MAX_RETRIES
    /\ Len(CreateCalls) = Len(Candidates)

\* ---------------------------------------------------------------------- C3
\* Instances the call created or resumed.
Touched ==
    Range(result) \cup (IF Started THEN Range(Ids(reuse_nodes)) ELSE {})

NoClusterTagOverride ==
    /\ \A i \in 1..Len(call.tags) :
          call.tags[i][1] = TAG_RAY_CLUSTER_NAME
              => call.tags[i][2] = call.cluster_name
    /\ \A s \in 1..Len(node_config.TagSpecifications) :
          LET ts == node_config.TagSpecifications[s]
          IN ts.ResourceType = "instance" =>
                \A j \in 1..Len(ts.Tags) :
                    ts.Tags[j].Key = TAG_RAY_CLUSTER_NAME
                        => ts.Tags[j].Value = call.cluster_name

C4_AllOrNothing ==
    (pc = "returned" /\ error = "none") =>
        /\ \A i \in 1..Len(CreateCalls) :
              CreateCalls[i].req.MinCount = CreateCalls[i].req.MaxCount
        /\ call.op = "create" => Len(result) = call.count[1]
        /\ call.op = "ensure" => Len(result) >= call.count[1]

\* ---------------------------------------------------------------------- C5
\* C5: no step of a call changes the content of the caller's node template.
C5_TemplateUnchanged == [][node_config' = node_config]_vars

\* ---------------------------------------------------------------------- C7
Supported == {"running", "stopped", "terminated"}

\* C7: wait_instances with a target state outside running, stopped and
\* terminated raises at once: the call is over with ValueError and has made no
\* provider call (no waiter obtained, no wait started).
C7_UnsupportedStateNoCall ==
    (call.op = "wait" /\ call.state \notin Supported) =>
        pc = "returned" /\ error = "ValueError" /\ calls = <<>>

C7_Witness ==
    call.op = "wait" /\ call.state = "paused" /\ pc = "returned"

\* ---------------------------------------------------------------------- C8
\* C8: resume_instances with an empty tag dict sends no create_tags request;
\* with a non-empty dict and at least one node to resume it sends, once the
\* nodes are started, exactly one create_tags request, for the started ids and
\* with the caller's tags.
C8_TagUpdateOnlyWithTags ==
    /\ call.tags = <<>> => TagUpdateCalls = <<>>
    /\ (Started /\ call.tags # <<>>) =>
          /\ Len(TagUpdateCalls) = 1
          /\ TagUpdateCalls[1].Resources = StartCalls[1].InstanceIds
          /\ TagUpdateCalls[1].Resources = Ids(reuse_nodes)
          /\ TagUpdateCalls[1].Tags = [i \in 1..Len(call.tags) |->
                [Key |-> call.tags[i][1], Value |-> call.tags[i][2]]]
    /\ ~Started => TagUpdateCalls = <<>>

C8_Witness ==
    /\ call.op = "resume" /\ pc = "returned"
    /\ call.tags = <<>>
    /\ Started
    /\ Len(reuse_nodes) = MaxInstances

\* --------------------------------------------------------------------- C10
AtStart == pc = "resume_wait" /\ idx > Len(reuse_nodes)
WaitedOn == {c.id : c \in Range(CallsTo("wait_until_stopped"))}

\* C10: when resume_instances is about to send the start request every
\* selected instance is stopped; the start request is sent at most once, names
\* exactly the selected ids, is accepted by the provider, and comes after a
\* wait on every node that was loaded as stopping.
C10_StartAfterStopped ==
    /\ AtStart => \A i \in Range(Ids(reuse_nodes)) : instances[i].state = "stopped"
    /\ Len(StartCalls) <= 1
    /\ error # "ClientError"
    /\ StartCalls # <<>> =>
          /\ StartCalls[1].InstanceIds = Ids(reuse_nodes)
          /\ \A j \in 1..Len(reuse_nodes) :
                reuse_nodes[j].state = "stopping" => reuse_nodes[j].id \in WaitedOn
    /\ (pc = "returned" /\ call.op = "resume" /\ reuse_nodes # <<>>)
          => Len(StartCalls) = 1

C10_Witness ==
    /\ Started
    /\ Len(reuse_nodes) >= 2
    /\ \E j \in 1..Len(reuse_nodes) : reuse_nodes[j].state = "stopping"
    /\ \E j \in 1..Len(reuse_nodes) : reuse_nodes[j].state = "stopped"

\* ---------------------------------------------------------------------- C6
\* The tags of the 'instance' entries of a list of specs, in merge order.
RECURSIVE InstanceTagsOf(_)
InstanceTagsOf(specs) ==
    IF specs = <<>> THEN <<>>
    ELSE (IF Head(specs).ResourceType = "instance" THEN Head(specs).Tags
          ELSE <<>>) \o InstanceTagsOf(Tail(specs))

KeysOf(tl) == {tl[i].Key : i \in 1..Len(tl)}
LastValue(tl, k) ==
    LET last == CHOOSE i \in 1..Len(tl) :
                    /\ tl[i].Key = k
                    /\ \A j \in (i + 1)..Len(tl) : tl[j].Key # k
    IN tl[last].Value

Merged == Content(merge.heap, merge.tag_specs)

\* C6: after _merge_tag_specs(base, user) the merged 'instance' entry holds
\* exactly the keys of base and of the user's 'instance' tags; a key the user
\* sets has the user's (last) value, whether base had it or not, and a key
\* only base sets keeps the base value.
C6_MergePrecedence ==
    merge.phase = "once" =>
        LET b == merge.base0[1].Tags
            u == InstanceTagsOf(merge.user0)
            m == Merged[1].Tags
        IN /\ Merged[1].ResourceType = "instance"
           /\ KeysOf(m) = KeysOf(b) \cup KeysOf(u)
           /\ \A j \in 1..Len(m) :
                 m[j].Value = IF m[j].Key \in KeysOf(u)
                              THEN LastValue(u, m[j].Key)
                              ELSE LastValue(b, m[j].Key)

C6_Witness ==
    /\ merge.phase = "once"
    /\ LET b == merge.base0[1].Tags
           u == InstanceTagsOf(merge.user0)
       IN /\ \E i \in 1..Len(b), j \in 1..Len(u) :
                b[i].Key = u[j].Key /\ b[i].Value # u[j].Value
          /\ KeysOf(u) \ KeysOf(b) # {}

\* ---------------------------------------------------------------------- C9
\* C9 as stated: merging a list of specs with a copy of itself leaves its
\* content unchanged, and a second merge of the same user specs into a base
\* yields the content of the first.
C9_AsStated ==
    merge.phase \in {"self", "twice"} => Merged = merge.before

OtherSpecs(specs) == SelectSeq(specs, LAMBDA ts : ts.ResourceType # "instance")

\* C9 amended: merging a single 'instance' tag spec without repeated keys
\* with a copy of itself leaves its content unchanged; a second merge of the
\* same user specs into a base leaves the merged 'instance' entry and the
\* earlier entries as the first merge left them and appends each user spec of
\* another resource type once more.
C9_MergeIdempotentOnInstanceTags ==
    /\ (/\ merge.phase = "self"
        /\ Len(merge.before) = 1
        /\ merge.before[1].ResourceType = "instance"
        /\ UniqueKeys(merge.before[1].Tags)) => Merged = merge.before
    /\ merge.phase = "twice" =>
          Merged = merge.before \o OtherSpecs(merge.user0)

C9_Witness ==
    /\ merge.phase = "twice"
    /\ OtherSpecs(merge.user0) # <<>>
    /\ \E i \in 1..Len(merge.base0[1].Tags),
          j \in 1..Len(InstanceTagsOf(merge.user0)) :
            /\ merge.base0[1].Tags[i].Key = InstanceTagsOf(merge.user0)[j].Key
            /\ merge.base0[1].Tags[i].Value # InstanceTagsOf(merge.user0)[j].Value

====
